---- MODULE Spec2Model ----
(***************************************************************************)
(* Body3DMetric: the measurement engine (processImage, calcCircumference,  *)
(* the status tables), the oracle boundary (analyzeBodyImage) and the      *)
(* page flow of App (welcome -> input -> camera -> processing -> result).  *)
(*                                                                         *)
(* Two variants of the application exist in the sources:                   *)
(*   "simple"   : src/unnamed/part_001 (App) + src/unnamed/part_000:1-60   *)
(*                fixed depth factor 0.70, no age                          *)
(*   "extended" : src/App.tsx + src/unnamed/part_000:63-125                *)
(*                depth factor 0.78 when age > 50, otherwise 0.75          *)
(*                                                                         *)
(* Numbers.  A JavaScript number is a record [t, v]:                       *)
(*   t = "num"   a finite number, v its value as a scaled integer          *)
(*   t = "nan"   NaN                                                       *)
(*   t = "inf"   +Infinity (v = 1) or -Infinity (v = -1)                   *)
(*   t = "undef" the value undefined (a missing property)                  *)
(* The scale of v is fixed by the quantity:                                *)
(*   ratios              1/10^4                                            *)
(*   lengths in cm       1/10^4 cm   (LEN)                                 *)
(*   dimensionless reals 1/10^6      (UNIT), inside calcCircumference      *)
(*   areas in cm^2       1/10^3                                            *)
(*   height              whole cm,  weight  1/10 kg                        *)
(*   bmi                 1/10       (one decimal, toFixed(1))              *)
(*   whr, whtr           1/100      (two decimals, toFixed(2))             *)
(*   widths in metres    1/10^6 m                                          *)
(*   circumferences      whole cm   (Math.round)                           *)
(* Double precision arithmetic is modelled by fixed point arithmetic that  *)
(* truncates at the scale of the result; the error of calcCircumference    *)
(* before Math.round is below 0.01 cm.                                     *)
(***************************************************************************)
EXTENDS Integers, Sequences, FiniteSets, TLC

VARIABLES
  variant,        \* "simple" or "extended": which App is running
  step,           \* App state: 'welcome' | 'input' | 'camera' | 'processing' | 'result'
  height,         \* App state: cm
  weight,         \* App state: 1/10 kg
  age,            \* App state: years (extended variant only)
  photo,          \* App state: id of the uploaded photo, 0 = null
  measurements,   \* App state: BodyMeasurements record or null
  error,          \* App state: message or "null"
  isProcessing,   \* App state
  pending,        \* the processImage calls under way (reader loading or oracle awaited)
  uploads,        \* number of files chosen so far
  requests,       \* number of generateContent requests sent to the oracle so far
  modelGroup,     \* ModelViewer: the children of sceneRef.current.modelGroup,
                  \* <<>> while no ModelViewer is mounted
  effectRuns,     \* ModelViewer: runs of the model effect since the viewer was
                  \* mounted, 0 while no ModelViewer is mounted
  exported,       \* the kinds of the objects handed to OBJExporter.parse by the
                  \* last exportToOBJ, <<>> before the first
  frameQueue,     \* the renderers whose animate is scheduled with
                  \* requestAnimationFrame (one renderer per mount of ModelViewer)
  disposed,       \* the renderers on which dispose() has been called
  lastFrame,      \* the last run of an animate callback: its renderer and
                  \* whether that renderer was disposed then
  resetAt,        \* history: the number of files chosen when reset last ran,
                  \* -1 before the first reset
  overtaken,      \* history: the calls of processImage that were awaiting the
                  \* oracle when the record now held was stored by a later upload
  fn, arg, res    \* the function applied last by the function-level specification

vars == <<variant, step, height, weight, age, photo, measurements, error,
          isProcessing, pending, uploads, requests, modelGroup, effectRuns,
          exported, frameQueue, disposed, lastFrame, resetAt, overtaken,
          fn, arg, res>>

viewVars == <<modelGroup, effectRuns, exported>>

frameVars == <<frameQueue, disposed, lastFrame>>

histVars == <<resetAt, overtaken>>

appVars == <<step, height, weight, age, photo, measurements, error,
             isProcessing, pending, uploads, requests, viewVars, frameVars,
             histVars>>

fnVars == <<fn, arg, res>>

-----------------------------------------------------------------------------
(* JavaScript numbers *)

LEN  == 10^4
UNIT == 10^6

Num(n)    == [t |-> "num", v |-> n]
NaN       == [t |-> "nan", v |-> 0]
Infinity  == [t |-> "inf", v |-> 1]
NegInfinity == [t |-> "inf", v |-> -1]
undefined == [t |-> "undef", v |-> 0]
null      == [t |-> "null", v |-> 0]

IsFinite(x) == x.t = "num"

Abs(n) == IF n < 0 THEN -n ELSE n
Sign(n) == IF n < 0 THEN -1 ELSE IF n > 0 THEN 1 ELSE 0

\* val < c and val <= c for a number val and a literal c of the same scale;
\* every comparison with NaN (or with undefined, which converts to NaN) is false.
JSLess(val, c) ==
  \/ val.t = "num" /\ val.v < c
  \/ val.t = "inf" /\ val.v = -1

JSLessEq(val, c) ==
  \/ val.t = "num" /\ val.v <= c
  \/ val.t = "inf" /\ val.v = -1

\* x * y for fixed point numbers whose product is wanted at scale B * B:
\* x * y / (B * B) truncated toward zero, computed on the base-B limbs of x
\* and y so that no intermediate product leaves the 32-bit integers
FxMul(x, y, B) ==
  LET xh == Abs(x) \div B
      xl == Abs(x) % B
      yh == Abs(y) \div B
      yl == Abs(y) % B
  IN  Sign(x) * Sign(y) * (xh * yh + (xh * yl + xl * yh + (xl * yl) \div B) \div B)

\* the first k decimal digits of r / z for 0 <= r < z (long division)
RECURSIVE LongDiv(_, _, _)
LongDiv(r, z, k) ==
  IF k = 0 THEN 0
  ELSE ((r * 10) \div z) * 10^(k - 1) + LongDiv((r * 10) % z, z, k - 1)

\* x / z for z > 0 at a scale 10^k finer than that of x and z:
\* x * 10^k / z truncated toward zero
FxDiv(x, z, k) ==
  Sign(x) * ((Abs(x) \div z) * 10^k + LongDiv(Abs(x) % z, z, k))

\* nearest integer to n / d, ties away from zero (Number.prototype.toFixed)
RoundHalfAway(n, d) ==
  Sign(n) * Sign(d) * ((2 * Abs(n) + Abs(d)) \div (2 * Abs(d)))

\* Number((x / y).toFixed(digits)) where the real quotient times 10^digits
\* is (x.v * factor) / y.v
DivToFixed(x, y, factor) ==
  IF x.t \in {"nan", "undef"} \/ y.t \in {"nan", "undef"} THEN NaN
  ELSE IF x.t = "inf" THEN (IF y.t = "inf" THEN NaN
                            ELSE IF y.v < 0 THEN [t |-> "inf", v |-> -x.v] ELSE x)
  ELSE IF y.t = "inf" THEN Num(0)
  ELSE IF y.v = 0 THEN (IF x.v = 0 THEN NaN
                        ELSE IF x.v > 0 THEN Infinity ELSE NegInfinity)
  ELSE Num(RoundHalfAway(x.v * factor, y.v))

\* Math.sqrt on UNIT-scaled reals x > 0: the largest r with r * r <= x * UNIT,
\* by Newton's iteration from above
RECURSIVE SqrtNewton(_, _)
SqrtNewton(x, r) ==
  LET next == (r + FxDiv(x, r, 6)) \div 2
  IN  IF next >= r THEN r ELSE SqrtNewton(x, next)

Math_sqrt(x) == IF x = 0 THEN 0 ELSE SqrtNewton(x, IF x > UNIT THEN x ELSE UNIT)

\* Math.PI, UNIT-scaled
Math_PI == 3141593

\* Math.pow(x, 2) of a LEN-scaled length: an area in cm^2 at scale 1/10^3
Math_pow2(x) == FxMul(x, x, 100) \div 10

\* Math.round on a LEN-scaled length: floor(x + 0.5)
Math_round(x) == (x + LEN \div 2) \div LEN

-----------------------------------------------------------------------------
(* Classification tables *)

\* getBMIStatus with 18.5 counted as underweight
getBMIStatus_le(val) ==
  IF JSLessEq(val, 1850) THEN "BAJO PESO"
  ELSE IF JSLess(val, 2500) THEN "NORMAL"
  ELSE IF JSLess(val, 3000) THEN "SOBREPESO"
  ELSE "OBESIDAD"

\* val: bmi, scale 1/100
getBMIStatus(val) ==
  IF JSLess(val, 1850) THEN "BAJO PESO"
  ELSE IF JSLess(val, 2500) THEN "NORMAL"
  ELSE IF JSLess(val, 3000) THEN "SOBREPESO"
  ELSE "OBESIDAD"

\* getWHRStatus with 0.85 counted as medium risk
getWHRStatus_lt(val) ==
  IF JSLess(val, 850) THEN "BAJO RIESGO"
  ELSE IF JSLessEq(val, 950) THEN "RIESGO MEDIO"
  ELSE "RIESGO ALTO"

\* val: whr, scale 1/1000
getWHRStatus(val) ==
  IF JSLessEq(val, 850) THEN "BAJO RIESGO"
  ELSE IF JSLessEq(val, 950) THEN "RIESGO MEDIO"
  ELSE "RIESGO ALTO"

\* getWHtRStatus with 0.50 counted as elevated risk
getWHtRStatus_lt(val) ==
  IF JSLess(val, 500) THEN "SALUDABLE"
  ELSE "RIESGO ELEVADO"

\* val: whtr, scale 1/1000
getWHtRStatus(val) ==
  IF JSLessEq(val, 500) THEN "SALUDABLE"
  ELSE "RIESGO ELEVADO"

-----------------------------------------------------------------------------
(* Measurement engine: the body of processImage after the await *)

\* ratios.xRatio * scale: a LEN-scaled length in cm (undefined * n is NaN)
Times(ratio, scale) ==
  IF ratio.t = "num" THEN Num(ratio.v * scale)
  ELSE IF ratio.t = "inf" THEN (IF scale = 0 THEN NaN
                                ELSE [t |-> "inf", v |-> ratio.v * Sign(scale)])
  ELSE NaN

\* x / 100: centimetres (1/10^4 cm) to metres (1/10^6 m), the integer is unchanged
Div100(x) == x

\* depthFactor with age >= 50 in place of age > 50
depthFactor_ge(v, userAge) ==
  IF v = "simple" THEN 70
  ELSE IF userAge >= 50 THEN 78 ELSE 75

\* const depthFactor = age > 50 ? 0.78 : 0.75 (extended); the literal 0.7 (simple)
depthFactor(v, userAge) ==
  IF v = "simple" THEN 70
  ELSE IF userAge > 50 THEN 78 ELSE 75

\* calcCircumference without the correction term: Math.round(Math.PI * (a + b))
calcCircumference_noterm(width, dFactor) ==
  IF width.t # "num" THEN NaN
  ELSE IF width.v = 0 THEN NaN
  ELSE
    LET a == width.v \div 2
        b == (width.v * dFactor) \div 200
    IN  Num(Math_round(FxMul(Math_PI, a + b, 1000)))

\* Ramanujan's approximation of the perimeter of the ellipse with axes
\* width and width * depthFactor, rounded to whole centimetres
calcCircumference(width, dFactor) ==
  IF width.t # "num" THEN NaN
  ELSE IF width.v = 0 THEN NaN                \* h_approx = 0 / 0
  ELSE
    LET a == width.v \div 2
        b == (width.v * dFactor) \div 200
        powMinus == Math_pow2(a - b)
        powPlus  == Math_pow2(a + b)
        h_approx == IF powPlus = 0 THEN 0 ELSE FxDiv(powMinus, powPlus, 6)
        root == Math_sqrt(4 * UNIT - 3 * h_approx)
        term == FxDiv(3 * h_approx, 10 * UNIT + root, 6)
        piab == FxMul(Math_PI, a + b, 1000)
    IN  Num(Math_round(FxMul(piab, UNIT + term, 1000)))

\* computeBMI cutting the quotient after one decimal instead of rounding it
computeBMI_trunc(w, h) ==
  IF h = 0 THEN DivToFixed(Num(w), Num(0), 10^4)
  ELSE Num(Sign(w) * ((Abs(w) * 10^4) \div (h * h)))

\* Number((weight / Math.pow(height / 100, 2)).toFixed(1))
\* (a quotient exactly half way between two decimals is rounded away from
\* zero; no input of the model produces one)
computeBMI(w, h) == DivToFixed(Num(w), Num(h * h), 10^4)

\* computeWHR cutting the quotient after two decimals instead of rounding it
computeWHR_trunc(waistCircum, hipCircum) ==
  IF waistCircum.t = "num" /\ hipCircum.t = "num" /\ hipCircum.v > 0
  THEN Num(Sign(waistCircum.v) * ((Abs(waistCircum.v) * 100) \div hipCircum.v))
  ELSE DivToFixed(waistCircum, hipCircum, 100)

\* Number((waistCircum / hipCircum).toFixed(2))
computeWHR(waistCircum, hipCircum) == DivToFixed(waistCircum, hipCircum, 100)

\* Number((waistCircum / height).toFixed(2))
computeWHtR(waistCircum, h) == DivToFixed(waistCircum, Num(h), 100)

ReadUndefinedMsg == "Cannot read properties of undefined (reading 'waistRatio')"
DestructureNullMsg == "Cannot destructure property 'measurements' of 'analysis' as it is null."

\* lines 49-87 of processImage: the record built from the analysis and the
\* biometrics captured by the closure, or the TypeError thrown on the way
buildMeasurements(v, analysis, h, w, userAge) ==
  IF analysis.kind = "null"
  THEN [threw |-> TRUE, message |-> DestructureNullMsg, value |-> null]
  ELSE IF ~analysis.measurements.defined
  THEN [threw |-> TRUE, message |-> ReadUndefinedMsg, value |-> null]
  ELSE
    LET ratios == analysis.measurements
        scale == h
        wWidth == Times(ratios.waistRatio, scale)
        hWidth == Times(ratios.hipRatio, scale)
        dF == depthFactor(v, userAge)
        waistCircum == calcCircumference(wWidth, dF)
        hipCircum == calcCircumference(hWidth, dF)
        finalMeasurements ==
          [height |-> h,
           weight |-> w,
           age |-> IF v = "extended" THEN Num(userAge) ELSE undefined,
           waistWidth |-> Div100(Times(ratios.waistRatio, scale)),
           hipWidth |-> Div100(Times(ratios.hipRatio, scale)),
           shoulderWidth |-> Div100(Times(ratios.shoulderRatio, scale)),
           chestWidth |-> Div100(Times(ratios.chestRatio, scale)),
           waistCircumference |-> waistCircum,
           hipCircumference |-> hipCircum,
           bmi |-> computeBMI(w, h),
           whr |-> computeWHR(waistCircum, hipCircum),
           whtr |-> computeWHtR(waistCircum, h)]
    IN  [threw |-> FALSE, message |-> "", value |-> finalMeasurements]

-----------------------------------------------------------------------------
(* Silhouette generator: the model effect of ModelViewer.  Lengths are in   *)
(* metres at scale 1/10^6, as the widths of the record; a height fraction t *)
(* is the integer 200 * t, so that the samples i/20 and i/40 and the         *)
(* landmarks (hundredths) are all integers and compare as the doubles do.    *)

\* x / 2
Half(x) == IF x.t = "num" THEN Num(x.v \div 2) ELSE NaN

\* x * num / den for a constant factor num / den
Scaled(x, num, den) == IF x.t = "num" THEN Num((x.v * num) \div den) ELSE NaN

\* x + c for a constant c
Plus(x, c) == IF x.t = "num" THEN Num(x.v + c) ELSE NaN

\* THREE.MathUtils.lerp(x, y, t) = (1 - t) * x + t * y for t = num / den
lerp(x, y, num, den) ==
  IF x.t = "num" /\ y.t = "num"
  THEN Num(((den - num) * x.v + num * y.v) \div den)
  ELSE NaN

\* const scaleFactor = userHeight / 100
scaleFactor(m) == m.height * LEN

\* segments = 20 (simple), density = 40 (extended)
segments(v) == IF v = "simple" THEN 20 ELSE 40

\* the height fraction of sample i, with one sample too many in the division
sampleT_offbyone(v, i) == (i * 200) \div (segments(v) + 1)

\* t = i / segments, currentT = i / density
sampleT(v, i) == (i * 200) \div segments(v)

\* the head fraction with the head taken to be half as tall as it is
headT_half(v, T) ==
  IF v = "simple" THEN [num |-> T - 180, den |-> 10]
  ELSE [num |-> T - 172, den |-> 14]

\* headT = (t - 0.9) / 0.1 (simple), (currentT - 0.86) / (1.0 - 0.86) (extended)
headT(v, T) ==
  IF v = "simple" THEN [num |-> T - 180, den |-> 20]
  ELSE [num |-> T - 172, den |-> 28]

\* 1 - Math.pow((headT - 0.5) * 2, 2), UNIT-scaled; the extended variant
\* writes the same value as 1 - Math.pow(headT * 2 - 1, 2)
headCircle(v, T) ==
  LET h == headT(v, T)
      u == 2 * h.num - h.den
  IN  UNIT - (u * u * UNIT) \div (h.den * h.den)

\* the value handed to Math.sqrt: Math.max(0, ...) in the extended variant
\* only.  (In double arithmetic the simple variant's last sample has
\* headT = 1 - 2^-52 and the value 8.9e-16, which is 0 at this scale.)
underRoot(v, T) ==
  IF v = "simple" THEN headCircle(v, T)
  ELSE IF headCircle(v, T) < 0 THEN 0 ELSE headCircle(v, T)

\* Math.sqrt(x) * c for UNIT-scaled x and a length c; NaN for x < 0
sqrtTimes(x, c) == IF x < 0 THEN NaN ELSE Num(FxMul(Math_sqrt(x), c, 1000))

\* headRadius: 0.1 * scaleFactor (simple), 0.08 * scaleFactor (extended)
headRadius(v, m) ==
  IF v = "simple" THEN scaleFactor(m) \div 10 ELSE (8 * scaleFactor(m)) \div 100

\* the radius of the head at height fraction T; in the extended variant
\* if (isNaN(r)) r = 0.005
headProfile(v, m, T) ==
  LET r == sqrtTimes(underRoot(v, T), headRadius(v, m))
  IN  IF v = "extended" /\ r.t = "nan" THEN Num(5000) ELSE r

\* the if-chain of the simple profile loop
simpleRadius(m, T) ==
  IF T < 20 THEN Num((8 * scaleFactor(m)) \div 100)
  ELSE IF T < 90 THEN lerp(Num(80000), Half(m.hipWidth), T - 20, 70)
  ELSE IF T < 110 THEN lerp(Half(m.hipWidth), Half(m.waistWidth), T - 90, 20)
  ELSE IF T < 150 THEN lerp(Half(m.waistWidth), Half(m.chestWidth), T - 110, 40)
  ELSE IF T < 180 THEN lerp(Half(m.shoulderWidth), Num((6 * scaleFactor(m)) \div 100),
                            T - 150, 30)
  ELSE headProfile("simple", m, T)

\* const landmarks = [...], t as 200 * t
landmarks(m) ==
  <<[t |-> 0,   r |-> Num(0)],
    [t |-> 20,  r |-> Scaled(m.hipWidth, 40, 100)],
    [t |-> 70,  r |-> Scaled(m.hipWidth, 45, 100)],
    [t |-> 90,  r |-> Scaled(m.hipWidth, 50, 100)],
    [t |-> 116, r |-> Scaled(m.waistWidth, 50, 100)],
    [t |-> 144, r |-> Scaled(m.chestWidth, 50, 100)],
    [t |-> 160, r |-> Scaled(m.shoulderWidth, 50, 100)],
    [t |-> 166, r |-> Num((45 * scaleFactor(m)) \div 1000)],
    [t |-> 172, r |-> Num((40 * scaleFactor(m)) \div 1000)]>>

\* the inner loop over the landmarks from index j: the first segment that
\* holds T gives the interpolated radius, none gives 0
RECURSIVE findSegment(_, _, _)
findSegment(lm, T, j) ==
  IF j > Len(lm) - 1 THEN Num(0)
  ELSE IF T >= lm[j].t /\ T <= lm[j + 1].t
       THEN lerp(lm[j].r, lm[j + 1].r, T - lm[j].t, lm[j + 1].t - lm[j].t)
       ELSE findSegment(lm, T, j + 1)

\* the body of the extended profile loop
extendedRadius(m, T) ==
  IF T > 172 THEN headProfile("extended", m, T)
  ELSE findSegment(landmarks(m), T, 1)

\* the segments of the profile below the head, each with the height
\* fractions and the radii its interpolation runs between: the branches of
\* the if-chain (simple), the consecutive pairs of landmarks (extended)
profileSegments(v, m) ==
  IF v = "simple"
  THEN <<[t0 |-> 0, t1 |-> 20,
          r0 |-> Num((8 * scaleFactor(m)) \div 100),
          r1 |-> Num((8 * scaleFactor(m)) \div 100)],
         [t0 |-> 20, t1 |-> 90, r0 |-> Num(80000), r1 |-> Half(m.hipWidth)],
         [t0 |-> 90, t1 |-> 110, r0 |-> Half(m.hipWidth), r1 |-> Half(m.waistWidth)],
         [t0 |-> 110, t1 |-> 150, r0 |-> Half(m.waistWidth), r1 |-> Half(m.chestWidth)],
         [t0 |-> 150, t1 |-> 180, r0 |-> Half(m.shoulderWidth),
          r1 |-> Num((6 * scaleFactor(m)) \div 100)]>>
  ELSE [j \in 1..(Len(landmarks(m)) - 1) |->
          [t0 |-> landmarks(m)[j].t, t1 |-> landmarks(m)[j + 1].t,
           r0 |-> landmarks(m)[j].r, r1 |-> landmarks(m)[j + 1].r]]

\* the radius of the profile at height fraction T
profileRadius(v, m, T) ==
  IF v = "simple" THEN simpleRadius(m, T) ELSE extendedRadius(m, T)

\* points: new THREE.Vector2(x, y) for i = 0 .. segments
profilePoints(v, m) ==
  [k \in 1..(segments(v) + 1) |->
     [x |-> profileRadius(v, m, sampleT(v, k - 1)),
      y |-> Num((sampleT(v, k - 1) * scaleFactor(m)) \div 200)]]

\* the margin added to both radii of a tape
tapeMargin(v) == IF v = "simple" THEN 10000 ELSE 5000

\* the radii of a tape with the minor radius 0.7 times the major one
tapeRadii_scaled(v, width) ==
  [rx |-> Plus(Half(width), tapeMargin(v)),
   rz |-> Scaled(Plus(Half(width), tapeMargin(v)), 7, 10)]

\* the radii in a createTape call: width / 2 + margin, (width / 2) * 0.7 + margin
tapeRadii(v, width) ==
  [rx |-> Plus(Half(width), tapeMargin(v)),
   rz |-> Plus(Scaled(Half(width), 7, 10), tapeMargin(v))]

\* createTape(yPos, rx, rz, label) with yPos = (T / 200) * scaleFactor
createTape(v, m, T, width, label) ==
  [label |-> label,
   yPos |-> Num((T * scaleFactor(m)) \div 200),
   rx |-> tapeRadii(v, width).rx,
   rz |-> tapeRadii(v, width).rz]

\* the createTape calls of the model effect, in order
tapes(v, m) ==
  IF v = "simple"
  THEN <<createTape(v, m, 100, m.waistWidth, "Cintura"),
         createTape(v, m, 80, m.hipWidth, "Cadera")>>
  ELSE <<createTape(v, m, 144, m.chestWidth, "Chest"),
         createTape(v, m, 116, m.waistWidth, "Waist"),
         createTape(v, m, 90, m.hipWidth, "Hips")>>

\* modelGroup.position.y at the end of the model effect:
\* -scaleFactor / 2 (simple), -0.45 * scaleFactor (extended)
positionY(v, m) ==
  IF v = "simple" THEN Num(-(scaleFactor(m) \div 2))
  ELSE Num(-((45 * scaleFactor(m)) \div 100))

\* what the model effect builds from the record m
buildModel(v, m) ==
  [points |-> profilePoints(v, m),
   tapes |-> tapes(v, m),
   positionY |-> positionY(v, m)]

-----------------------------------------------------------------------------
(* Function-level specification: the pure functions applied to inputs drawn *)
(* from bounded sets.  fn names the function, arg its input, res its result *)

MaxBmi == 3200          \* getBMIStatus is applied to 0.00 .. 32.00
MaxWhr == 1000          \* getWHRStatus is applied to 0.000 .. 1.000
MaxWhtr == 600          \* getWHtRStatus is applied to 0.000 .. 0.600
MaxFnHeight == 175      \* computeBMI: heights 165 .. 175 cm and 0
MaxFnWeight == 600      \* computeBMI: weights 50.0 .. 60.0 kg and 0
MaxFnWidth == 100       \* calcCircumference: widths 1 .. 100 cm
MaxRatioIdx == 60       \* buildMeasurements: waist ratios -0.010 .. 0.300 by 0.005
MaxViewRatioIdx == 12   \* buildModel: waist ratios 0.000 .. 0.300 by 0.025

SpecialNumbers == {NaN, Infinity, NegInfinity}
BmiVals  == {Num(n) : n \in 0..MaxBmi} \cup SpecialNumbers
WhrVals  == {Num(n) : n \in 0..MaxWhr} \cup SpecialNumbers
WhtrVals == {Num(n) : n \in 0..MaxWhtr} \cup SpecialNumbers
FnHeights == {0} \cup ((MaxFnHeight - 10)..MaxFnHeight)
FnWeights == {0} \cup ((MaxFnWeight - 100)..MaxFnWeight)
FnWidths == 1..MaxFnWidth
FnDepthFactors == {70, 75, 78}
FnRatios == {50 * i : i \in (-2)..MaxRatioIdx}
FnScanHeights == {170, 200}
FnAges == {40, 50, 51, 60}
ViewRatios == {250 * i : i \in 0..MaxViewRatioIdx}
ViewHeights == {0, 150, 163, 170, 185, 200}

\* the same value at a scale k times finer
Rescale(x, k) == IF x.t = "num" THEN Num(x.v * k) ELSE x

\* an oracle answer with the given waist ratio; the other widths follow it
AnalysisOf(r) ==
  [kind |-> "object",
   measurements |-> [defined |-> TRUE,
                     waistRatio |-> Num(r),
                     hipRatio |-> Num(r + 300),
                     shoulderRatio |-> Num(r + 600),
                     chestRatio |-> Num(r + 400),
                     torsoHeightRatio |-> Num(3000)],
   confidence |-> Num(9000)]

AppInit ==
  /\ step = "welcome"
  /\ height = 170
  /\ weight = 700
  /\ age = 30
  /\ photo = 0
  /\ measurements = null
  /\ error = "null"
  /\ isProcessing = FALSE
  /\ pending = {}
  /\ uploads = 0
  /\ requests = 0
  /\ modelGroup = <<>>
  /\ effectRuns = 0
  /\ exported = <<>>
  /\ frameQueue = {}
  /\ disposed = {}
  /\ lastFrame = [renderer |-> 0, disposed |-> FALSE]
  /\ resetAt = -1
  /\ overtaken = {}

InitFn ==
  /\ variant \in {"simple", "extended"}
  /\ AppInit
  /\ fn = "none"
  /\ arg = null
  /\ res = null

CallGetBMIStatus ==
  /\ fn = "none"
  /\ \E val \in BmiVals :
      /\ fn' = "getBMIStatus"
      /\ arg' = val
      /\ res' = [status |-> getBMIStatus(val)]
      /\ UNCHANGED <<variant, appVars>>

CallGetWHRStatus ==
  /\ fn = "none"
  /\ \E val \in WhrVals :
      /\ fn' = "getWHRStatus"
      /\ arg' = val
      /\ res' = [status |-> getWHRStatus(val)]
      /\ UNCHANGED <<variant, appVars>>

CallGetWHtRStatus ==
  /\ fn = "none"
  /\ \E val \in WhtrVals :
      /\ fn' = "getWHtRStatus"
      /\ arg' = val
      /\ res' = [status |-> getWHtRStatus(val)]
      /\ UNCHANGED <<variant, appVars>>

\* line 70 of processImage followed by the status shown for the bmi
CallComputeBMI ==
  /\ fn = "none"
  /\ \E h \in FnHeights, w \in FnWeights :
      /\ fn' = "computeBMI"
      /\ arg' = [height |-> h, weight |-> w]
      /\ res' = [bmi |-> computeBMI(w, h),
                 status |-> getBMIStatus(Rescale(computeBMI(w, h), 10))]
      /\ UNCHANGED <<variant, appVars>>

CallCalcCircumference ==
  /\ fn = "none"
  /\ \E w \in FnWidths, d \in FnDepthFactors :
      /\ fn' = "calcCircumference"
      /\ arg' = [width |-> w, depthFactor |-> d]
      /\ res' = calcCircumference(Num(w * LEN), d)
      /\ UNCHANGED <<variant, appVars>>

CallBuildMeasurements ==
  /\ fn = "none"
  /\ \E r \in FnRatios, h \in FnScanHeights, a \in FnAges :
      /\ fn' = "buildMeasurements"
      /\ arg' = [analysis |-> AnalysisOf(r), height |-> h, weight |-> 700, age |-> a]
      /\ res' = buildMeasurements(variant, AnalysisOf(r), h, 700, a)
      /\ UNCHANGED <<variant, appVars>>

\* the model effect applied to the record processImage builds
CallBuildModel ==
  /\ fn = "none"
  /\ \E r \in ViewRatios, h \in ViewHeights :
      /\ fn' = "buildModel"
      /\ arg' = buildMeasurements(variant, AnalysisOf(r), h, 700, 30).value
      /\ res' = buildModel(variant, arg')
      /\ UNCHANGED <<variant, appVars>>

\* the result has been used: the next application may start
Return ==
  /\ fn # "none"
  /\ fn' = "none"
  /\ arg' = null
  /\ res' = null
  /\ UNCHANGED <<variant, appVars>>

NextFn ==
  \/ Return
  \/ CallGetBMIStatus
  \/ CallGetWHRStatus
  \/ CallGetWHtRStatus
  \/ CallComputeBMI
  \/ CallCalcCircumference
  \/ CallBuildMeasurements
  \/ CallBuildModel

SpecFn == InitFn /\ [][NextFn]_vars

-----------------------------------------------------------------------------
(* The oracle boundary *)

CouldNotAnalyzeMsg == "Could not analyze body proportions."
UnknownErrorMsg == "Error desconocido al procesar la imagen."
NetworkErrorMsg == "Failed to fetch"

Ratios(w, h, s, c, t) ==
  [defined |-> TRUE, waistRatio |-> w, hipRatio |-> h, shoulderRatio |-> s,
   chestRatio |-> c, torsoHeightRatio |-> t]

\* the property measurements is absent from the parsed object
NoMeasurements ==
  [defined |-> FALSE, waistRatio |-> undefined, hipRatio |-> undefined,
   shoulderRatio |-> undefined, chestRatio |-> undefined,
   torsoHeightRatio |-> undefined]

Object(m, conf) == [kind |-> "object", measurements |-> m, confidence |-> conf]
EmptyObject == Object(NoMeasurements, undefined)
JsonNull == [kind |-> "null", measurements |-> NoMeasurements, confidence |-> undefined]

\* what generateContent can produce: a rejection (with an Error or with another
\* value) or a response whose text is not JSON, is empty, or is a JSON value
Rejection(isErr) == [kind |-> "reject", isError |-> isErr, data |-> EmptyObject]
Text(form, d) == [kind |-> form, isError |-> FALSE, data |-> d]

GoodRatios   == Ratios(Num(2000), Num(2200), Num(2600), Num(2100), Num(3000))
ZeroHip      == Ratios(Num(2000), Num(0), Num(2600), Num(2100), Num(3000))
MissingWaist == Ratios(undefined, Num(2200), Num(2600), Num(2100), Num(3000))
OutOfRange   == Ratios(Num(-2000), Num(2200), Num(2600), Num(10500), Num(3000))

Responses ==
  {Rejection(TRUE), Rejection(FALSE),
   Text("invalid", EmptyObject), Text("empty", EmptyObject), Text("json", JsonNull)}
  \cup {Text("json", Object(m, Num(9000))) :
          m \in {GoodRatios, ZeroHip, MissingWaist, OutOfRange}}

\* JSON.parse(response.text || '{}')
JSONparse(response) ==
  IF response.kind = "invalid" THEN [threw |-> TRUE, data |-> EmptyObject]
  ELSE IF response.kind = "empty" THEN [threw |-> FALSE, data |-> EmptyObject]
  ELSE [threw |-> FALSE, data |-> response.data]

\* analyzeBodyImage once generateContent has settled: the AnalysisResponse
\* returned, or what is thrown
analyzeBodyImage(response) ==
  IF response.kind = "reject"
  THEN [threw |-> TRUE, isError |-> response.isError,
        message |-> NetworkErrorMsg, data |-> EmptyObject]
  ELSE IF JSONparse(response).threw
  THEN [threw |-> TRUE, isError |-> TRUE,
        message |-> CouldNotAnalyzeMsg, data |-> EmptyObject]
  ELSE [threw |-> FALSE, isError |-> FALSE,
        message |-> "", data |-> JSONparse(response).data]

-----------------------------------------------------------------------------
(* App *)

MaxUploads == 2     \* files chosen in one behaviour

\* the forms the user fills in: the default one, and one with a zero height,
\* a zero weight, or an age above 50 (<<height, weight, age>>)
Biometrics == {<<170, 700, 30>>, <<0, 700, 30>>, <<170, 0, 30>>, <<170, 700, 60>>}
Heights == {b[1] : b \in Biometrics}
Weights == {b[2] : b \in Biometrics}
Ages == {b[3] : b \in Biometrics}

Init ==
  /\ variant \in {"simple", "extended"}
  /\ AppInit
  /\ fn = "none"
  /\ arg = null
  /\ res = null

handleStart ==
  /\ step = "welcome"
  /\ step' = "input"
  /\ UNCHANGED <<variant, height, weight, age, photo, measurements, error,
                 isProcessing, pending, uploads, requests, viewVars, frameVars,
                 histVars, fnVars>>

setHeight ==
  /\ step = "input"
  /\ \E h \in Heights \ {height} : <<h, weight, age>> \in Biometrics /\ height' = h
  /\ UNCHANGED <<variant, step, weight, age, photo, measurements, error,
                 isProcessing, pending, uploads, requests, viewVars, frameVars,
                 histVars, fnVars>>

setWeight ==
  /\ step = "input"
  /\ \E w \in Weights \ {weight} : <<height, w, age>> \in Biometrics /\ weight' = w
  /\ UNCHANGED <<variant, step, height, age, photo, measurements, error,
                 isProcessing, pending, uploads, requests, viewVars, frameVars,
                 histVars, fnVars>>

setAge ==
  /\ step = "input"
  /\ variant = "extended"
  /\ \E a \in Ages \ {age} : <<height, weight, a>> \in Biometrics /\ age' = a
  /\ UNCHANGED <<variant, step, height, weight, photo, measurements, error,
                 isProcessing, pending, uploads, requests, viewVars, frameVars,
                 histVars, fnVars>>

handleInputSubmit ==
  /\ step = "input"
  /\ step' = "camera"
  /\ UNCHANGED <<variant, height, weight, age, photo, measurements, error,
                 isProcessing, pending, uploads, requests, viewVars, frameVars,
                 histVars, fnVars>>

\* a file is chosen: the reader starts; its onloadend will call the
\* processImage of this render, which holds this render's height, weight, age
handleFileUpload ==
  /\ step = "camera"
  /\ uploads < MaxUploads
  /\ uploads' = uploads + 1
  /\ pending' = pending \cup {[id |-> uploads + 1, stage |-> "reading",
                                height |-> height, weight |-> weight, age |-> age]}
  /\ UNCHANGED <<variant, step, height, weight, age, photo, measurements, error,
                 isProcessing, requests, viewVars, frameVars,
                 histVars, fnVars>>

\* ModelViewer is rendered by <App> in the result view only
Shown(s, m) == s = "result" /\ m # null

\* an object added to modelGroup: a Mesh, a Line (tape) or the GridHelper,
\* built from the measurement record m
Child(kind, label, m) == [kind |-> kind, label |-> label, of |-> m]

\* while (modelGroup.children.length > 0) modelGroup.remove(modelGroup.children[0])
RECURSIVE clearChildren(_)
clearChildren(children) ==
  IF Len(children) > 0 THEN clearChildren(Tail(children)) ELSE children

\* the objects the model effect adds, in the order of its modelGroup.add calls
modelChildren(v, m) ==
  IF v = "simple"
  THEN <<Child("mesh", "", m),
         Child("tape", "Cintura", m),
         Child("tape", "Cadera", m)>>
  ELSE <<Child("mesh", "", m),
         Child("tape", "Chest", m),
         Child("tape", "Waist", m),
         Child("tape", "Hips", m),
         Child("grid", "", m)>>

\* the model effect that adds the new objects without clearing the group
modelEffect_noclear(v, children, m) == children \o modelChildren(v, m)

\* useEffect(..., [measurements]): clear the group, then add the mesh, the
\* tapes and (extended) the grid
modelEffect(v, children, m) == clearChildren(children) \o modelChildren(v, m)

\* the children of the model group once React has rendered step s2 and record
\* m2 and run the effects; changed: setMeasurements stored a new object
renderModelViewer(s2, m2, changed) ==
  IF ~Shown(s2, m2) THEN <<>>
  ELSE IF ~Shown(step, measurements) THEN modelEffect(variant, <<>>, m2)
  ELSE IF changed THEN modelEffect(variant, modelGroup, m2)
  ELSE modelGroup

\* the runs of the model effect of the mounted viewer after the same render
renderEffectRuns(s2, m2, changed) ==
  IF ~Shown(s2, m2) THEN 0
  ELSE IF ~Shown(step, measurements) THEN 1
  ELSE IF changed THEN effectRuns + 1
  ELSE effectRuns

\* the renderer of the mounted viewer; renderers are numbered in the order
\* of their creation, and the cleanup of every earlier viewer has run
currentRenderer == Cardinality(disposed) + 1

\* the scheduled animation frames after the same render: the scene effect
\* of a new viewer calls animate(), which calls requestAnimationFrame; the
\* cleanup of an unmounted viewer cancels nothing
renderFrameQueue(s2, m2) ==
  IF Shown(s2, m2) /\ ~Shown(step, measurements)
  THEN frameQueue \cup {currentRenderer}
  ELSE frameQueue

\* the disposed renderers after the same render: the cleanup of the scene
\* effect calls renderer.dispose()
renderDisposed(s2, m2) ==
  IF ~Shown(s2, m2) /\ Shown(step, measurements)
  THEN disposed \cup {currentRenderer}
  ELSE disposed

\* the last run of animate after the same render: the first run is made by
\* the scene effect itself
renderLastFrame(s2, m2) ==
  IF Shown(s2, m2) /\ ~Shown(step, measurements)
  THEN [renderer |-> currentRenderer, disposed |-> FALSE]
  ELSE lastFrame

\* the browser runs a scheduled animate callback of renderer k:
\* requestAnimationFrame(animate); controls.update(); renderer.render(scene, camera)
animate ==
  \E k \in frameQueue :
    /\ frameQueue' = (frameQueue \ {k}) \cup {k}
    /\ lastFrame' = [renderer |-> k, disposed |-> k \in disposed]
    /\ UNCHANGED <<variant, step, height, weight, age, photo, measurements, error,
                   isProcessing, pending, uploads, requests, viewVars, disposed,
                   histVars, fnVars>>

\* the calls awaiting the oracle that were uploaded before the call p
awaitingBefore(p) == {q.id : q \in {a \in pending : a.stage = "awaiting" /\ a.id < p.id}}

\* reader.onloadend: setPhoto, then processImage up to its await (the request
\* to the oracle is sent)
onloadend ==
  \E p \in pending :
    /\ p.stage = "reading"
    /\ photo' = p.id
    /\ step' = "processing"
    /\ isProcessing' = TRUE
    /\ error' = "null"
    /\ pending' = (pending \ {p}) \cup {[p EXCEPT !.stage = "awaiting"]}
    /\ requests' = requests + 1
    /\ modelGroup' = renderModelViewer("processing", measurements, FALSE)
    /\ effectRuns' = renderEffectRuns("processing", measurements, FALSE)
    /\ frameQueue' = renderFrameQueue("processing", measurements)
    /\ disposed' = renderDisposed("processing", measurements)
    /\ lastFrame' = renderLastFrame("processing", measurements)
    /\ UNCHANGED <<variant, height, weight, age, measurements, uploads, exported,
                   histVars, fnVars>>

\* buildMeasurements for every call the model can make (computed once)
builtFor ==
  [v \in {"simple", "extended"}, b \in Biometrics, r \in Responses |->
     buildMeasurements(v, analyzeBodyImage(r).data, b[1], b[2], b[3])]

\* processImage whose catch sets the error and leaves the step as it is
processImageOutcome_nostep(p, response) ==
  LET analysis == analyzeBodyImage(response)
      built == builtFor[variant, <<p.height, p.weight, p.age>>, response]
  IN  IF analysis.threw
      THEN <<measurements, step,
             IF analysis.isError THEN analysis.message ELSE UnknownErrorMsg>>
      ELSE IF built.threw
      THEN <<measurements, step, built.message>>
      ELSE <<built.value, "result", error>>

\* processImage whose success stores the record and leaves the step as it is
processImageOutcome_noresult(p, response) ==
  LET analysis == analyzeBodyImage(response)
      built == builtFor[variant, <<p.height, p.weight, p.age>>, response]
  IN  IF analysis.threw
      THEN <<measurements, "camera",
             IF analysis.isError THEN analysis.message ELSE UnknownErrorMsg>>
      ELSE IF built.threw
      THEN <<measurements, "camera", built.message>>
      ELSE <<built.value, step, error>>

\* the state processImage leaves when the oracle has settled with response
\* for the call p: <<measurements, step, error>>
processImageOutcome(p, response) ==
  LET analysis == analyzeBodyImage(response)
      built == builtFor[variant, <<p.height, p.weight, p.age>>, response]
  IN  IF analysis.threw
      THEN <<measurements, "camera",
             IF analysis.isError THEN analysis.message ELSE UnknownErrorMsg>>
      ELSE IF built.threw
      THEN <<measurements, "camera", built.message>>
      ELSE <<built.value, "result", error>>

\* the requests sent once the call has settled, with a retry after a rejection
requestsAfterSettle_retry(n, response) ==
  IF response.kind = "reject" THEN n + 1 ELSE n

\* the requests sent once the call has settled, n having been sent before:
\* neither analyzeBodyImage nor the catch of processImage sends another
requestsAfterSettle(n, response) == n

\* processImage from the await to the end of finally, and the render that
\* follows
processImage(p, response) ==
  /\ p \in pending
  /\ p.stage = "awaiting"
  /\ \E outcome \in {processImageOutcome(p, response)} :
       /\ measurements' = outcome[1]
       /\ step' = outcome[2]
       /\ error' = outcome[3]
       /\ modelGroup' = renderModelViewer(outcome[2], outcome[1], outcome[2] = "result")
       /\ effectRuns' = renderEffectRuns(outcome[2], outcome[1], outcome[2] = "result")
       /\ frameQueue' = renderFrameQueue(outcome[2], outcome[1])
       /\ disposed' = renderDisposed(outcome[2], outcome[1])
       /\ lastFrame' = renderLastFrame(outcome[2], outcome[1])
       /\ overtaken' = IF outcome[2] = "result" THEN awaitingBefore(p) ELSE overtaken
  /\ isProcessing' = FALSE
  /\ pending' = pending \ {p}
  /\ requests' = requestsAfterSettle(requests, response)
  /\ UNCHANGED <<variant, height, weight, age, photo, uploads, exported, resetAt,
                 fnVars>>

processImageSettles == \E p \in pending, response \in Responses : processImage(p, response)

\* reset without its setStep('welcome')
reset_keepstep ==
  /\ step # "welcome"
  /\ photo' = 0
  /\ measurements' = null
  /\ error' = "null"
  /\ step' = step
  /\ modelGroup' = renderModelViewer(step, null, FALSE)
  /\ effectRuns' = renderEffectRuns(step, null, FALSE)
  /\ frameQueue' = renderFrameQueue(step, null)
  /\ disposed' = renderDisposed(step, null)
  /\ lastFrame' = renderLastFrame(step, null)
  /\ resetAt' = uploads
  /\ overtaken' = {}
  /\ UNCHANGED <<variant, height, weight, age, isProcessing, pending, uploads,
                 requests, exported, fnVars>>

\* the button 'Reiniciar', shown on every step but 'welcome'
reset ==
  /\ step # "welcome"
  /\ photo' = 0
  /\ measurements' = null
  /\ error' = "null"
  /\ step' = "welcome"
  /\ modelGroup' = renderModelViewer("welcome", null, FALSE)
  /\ effectRuns' = renderEffectRuns("welcome", null, FALSE)
  /\ frameQueue' = renderFrameQueue("welcome", null)
  /\ disposed' = renderDisposed("welcome", null)
  /\ lastFrame' = renderLastFrame("welcome", null)
  /\ resetAt' = uploads
  /\ overtaken' = {}
  /\ UNCHANGED <<variant, height, weight, age, isProcessing, pending, uploads,
                 requests, exported, fnVars>>

\* the button 'Nuevo Escaneo' of the result view
newScan ==
  /\ step = "result"
  /\ measurements # null
  /\ step' = "input"
  /\ modelGroup' = renderModelViewer("input", measurements, FALSE)
  /\ effectRuns' = renderEffectRuns("input", measurements, FALSE)
  /\ frameQueue' = renderFrameQueue("input", measurements)
  /\ disposed' = renderDisposed("input", measurements)
  /\ lastFrame' = renderLastFrame("input", measurements)
  /\ UNCHANGED <<variant, height, weight, age, photo, measurements, error,
                 isProcessing, pending, uploads, requests, exported, histVars,
                 fnVars>>

\* the download button of the result view (extended variant):
\* exporter.parse(sceneRef.current.modelGroup)
exportToOBJ ==
  /\ variant = "extended"
  /\ Shown(step, measurements)
  /\ exported' = [i \in 1..Len(modelGroup) |-> modelGroup[i].kind]
  /\ UNCHANGED <<variant, step, height, weight, age, photo, measurements, error,
                 isProcessing, pending, uploads, requests, modelGroup, effectRuns,
                 frameVars, histVars, fnVars>>

Next ==
  \/ handleStart
  \/ setHeight
  \/ setWeight
  \/ setAge
  \/ handleInputSubmit
  \/ handleFileUpload
  \/ onloadend
  \/ processImageSettles
  \/ reset
  \/ newScan
  \/ exportToOBJ
  \/ animate

Spec == Init /\ [][Next]_vars

\* the oracle answers or rejects every request: the await of each call of
\* processImage ends
oracleSettles(i) ==
  \E p \in pending, response \in Responses : p.id = i /\ processImage(p, response)

SpecLive == Init /\ [][Next]_vars /\ \A i \in 1..MaxUploads : WF_vars(oracleSettles(i))

-----------------------------------------------------------------------------
(* Properties of the pure functions, checked under SpecFn *)

\* the order of the extended reals on numbers that are not NaN
Below(x, c) == IF x.t = "num" THEN x.v < c ELSE x.v < 0
AtMost(x, c) == IF x.t = "num" THEN x.v <= c ELSE x.v < 0

\* C1: getBMIStatus follows the rule table on every value that is a number:
\* below 18.5 underweight, [18.5, 25) normal, [25, 30) overweight, 30 and
\* above obese; each value gets exactly one label and 18.5, 25 and 30 belong
\* to the upper range.
C1_BMITable ==
  (fn = "getBMIStatus" /\ arg.t # "nan") =>
    /\ (res.status = "BAJO PESO") = Below(arg, 1850)
    /\ (res.status = "NORMAL") = (~Below(arg, 1850) /\ Below(arg, 2500))
    /\ (res.status = "SOBREPESO") = (~Below(arg, 2500) /\ Below(arg, 3000))
    /\ (res.status = "OBESIDAD") = ~Below(arg, 3000)

C1_Witness == fn = "getBMIStatus" /\ arg = Num(1850) /\ res.status = "NORMAL"

\* C2: getWHRStatus is low risk up to and including 0.85, medium risk above
\* 0.85 up to and including 0.95, high risk above 0.95; 0.85 is low and 0.86
\* is medium.
C2_WHRTable ==
  (fn = "getWHRStatus" /\ arg.t # "nan") =>
    /\ (res.status = "BAJO RIESGO") = AtMost(arg, 850)
    /\ (res.status = "RIESGO MEDIO") = (~AtMost(arg, 850) /\ AtMost(arg, 950))
    /\ (res.status = "RIESGO ALTO") = ~AtMost(arg, 950)
    /\ (arg = Num(850) => res.status = "BAJO RIESGO")
    /\ (arg = Num(860) => res.status = "RIESGO MEDIO")

C2_Witness == fn = "getWHRStatus" /\ arg = Num(850) /\ res.status = "BAJO RIESGO"

\* C3: getWHtRStatus is healthy up to and including 0.50 and elevated risk
\* above it.
C3_WHtRTable ==
  (fn = "getWHtRStatus" /\ arg.t # "nan") =>
    /\ (res.status = "SALUDABLE") = AtMost(arg, 500)
    /\ (res.status = "RIESGO ELEVADO") = ~AtMost(arg, 500)

C3_Witness == fn = "getWHtRStatus" /\ arg = Num(500) /\ res.status = "SALUDABLE"

\* C4 as stated: at 170 cm, 53.5 kg gives bmi 18.5 (normal) and 53.4 kg gives
\* bmi 18.4 (underweight).
C4_AsStated ==
  (fn = "computeBMI" /\ arg.height = 170) =>
    /\ (arg.weight = 535 => res.bmi = Num(185) /\ res.status = "NORMAL")
    /\ (arg.weight = 534 => res.bmi = Num(184) /\ res.status = "BAJO PESO")

\* C4 amended: at 170 cm, 53.5 kg and 53.4 kg both give bmi 18.5 (53.4 / 2.89
\* is 18.48), classified normal; 53.3 kg gives bmi 18.4, classified
\* underweight.
C4_BMIBoundary ==
  (fn = "computeBMI" /\ arg.height = 170) =>
    /\ (arg.weight = 535 => res.bmi = Num(185) /\ res.status = "NORMAL")
    /\ (arg.weight = 534 => res.bmi = Num(185) /\ res.status = "NORMAL")
    /\ (arg.weight = 533 => res.bmi = Num(184) /\ res.status = "BAJO PESO")

C4_Witness ==
  /\ fn = "computeBMI"
  /\ arg = [height |-> 170, weight |-> 534]
  /\ res.status = "NORMAL"

\* C5 as stated: calcCircumference returns 212 for a width of 80 cm and depth
\* factor 0.70.
C5_AsStated ==
  (fn = "calcCircumference" /\ arg = [width |-> 80, depthFactor |-> 70]) =>
    res = Num(212)

\* C5 amended: for a width of 80 cm and depth factor 0.70 (a = 40, b = 28)
\* Ramanujan's formula gives 215.29 and calcCircumference returns 215.
C5_Ramanujan80 ==
  (fn = "calcCircumference" /\ arg = [width |-> 80, depthFactor |-> 70]) =>
    res = Num(215)

C5_Witness ==
  /\ fn = "calcCircumference"
  /\ arg = [width |-> 80, depthFactor |-> 70]
  /\ res.t = "num"

\* the record the same call builds for a user of 40
AtAge40 == buildMeasurements(variant, arg.analysis, arg.height, arg.weight, 40).value

WaistWidthCm == Times(arg.analysis.measurements.waistRatio, arg.height).v
HipWidthCm == Times(arg.analysis.measurements.hipRatio, arg.height).v

\* C6 as stated (on positive widths): with the same ratios and height, the
\* waist and the hip circumference at age 60 are both larger than at age 40.
C6_AsStated ==
  (/\ fn = "buildMeasurements" /\ variant = "extended" /\ arg.age = 60
   /\ WaistWidthCm > 0 /\ HipWidthCm > 0) =>
    /\ res.value.waistCircumference.v > AtAge40.waistCircumference.v
    /\ res.value.hipCircumference.v > AtAge40.hipCircumference.v

\* C6 amended: in the extended variant, with the same ratios and height, a
\* circumference at an age above 50 is never smaller than at age 40 when the
\* width is positive, and it is larger when the width is at least 23 cm
\* (below that, rounding to whole centimetres can make the two equal); at an
\* age of 50 or less the circumferences are those of age 40.
C6_AgeDepth ==
  (fn = "buildMeasurements" /\ variant = "extended") =>
    /\ (arg.age > 50 /\ WaistWidthCm > 0) =>
          res.value.waistCircumference.v >= AtAge40.waistCircumference.v
    /\ (arg.age > 50 /\ HipWidthCm > 0) =>
          res.value.hipCircumference.v >= AtAge40.hipCircumference.v
    /\ (arg.age > 50 /\ WaistWidthCm >= 23 * LEN) =>
          res.value.waistCircumference.v > AtAge40.waistCircumference.v
    /\ (arg.age > 50 /\ HipWidthCm >= 23 * LEN) =>
          res.value.hipCircumference.v > AtAge40.hipCircumference.v
    /\ (arg.age <= 50) =>
          /\ res.value.waistCircumference = AtAge40.waistCircumference
          /\ res.value.hipCircumference = AtAge40.hipCircumference

C6_Witness ==
  /\ fn = "buildMeasurements"
  /\ variant = "extended"
  /\ arg.age = 60
  /\ WaistWidthCm >= 23 * LEN
  /\ res.value.waistCircumference.v > AtAge40.waistCircumference.v
  /\ res.value.hipCircumference.v > AtAge40.hipCircumference.v

-----------------------------------------------------------------------------
(* Properties of the App, checked under Spec *)

\* the analysis that processImage receives for the response
Parsed(response) == analyzeBodyImage(response)

IsRatio(x) == x.t = "num" /\ x.v >= 0 /\ x.v <= 10^4

\* the response parses to an object with the four width ratios in [0, 1]
HasValidRatios(response) ==
  /\ ~Parsed(response).threw
  /\ Parsed(response).data.kind = "object"
  /\ Parsed(response).data.measurements.defined
  /\ \A f \in {"waistRatio", "hipRatio", "shoulderRatio", "chestRatio"} :
       IsRatio(Parsed(response).data.measurements[f])

\* the attempt ended in a failure: an error is set, the step is not 'result'
\* and no new record is stored
AttemptFailed ==
  /\ error' # "null"
  /\ step' # "result"
  /\ measurements' = measurements

\* the response gives ratios, and the hip width or the height is zero
ZeroDivisor(p, response) ==
  /\ ~Parsed(response).threw
  /\ Parsed(response).data.kind = "object"
  /\ Parsed(response).data.measurements.defined
  /\ \/ p.height = 0
     \/ Parsed(response).data.measurements.hipRatio = Num(0)

\* C7: when the hip circumference or the height is zero, processImage ends in
\* a failure; it does not store a record whose whr, whtr or bmi is NaN or
\* infinite.
C7_AsStated ==
  [][\A p \in pending, response \in Responses :
       (processImage(p, response) /\ ZeroDivisor(p, response)) =>
          /\ AttemptFailed
          /\ (measurements' # null =>
                /\ IsFinite(measurements'.whr)
                /\ IsFinite(measurements'.whtr)
                /\ IsFinite(measurements'.bmi))]_vars

\* C8: when the response lacks a width ratio, or a ratio is negative or above
\* 1, the attempt fails and no record is produced.
C8_AsStated ==
  [][\A p \in pending, response \in Responses :
       (/\ processImage(p, response)
        /\ response.kind # "reject"
        /\ ~HasValidRatios(response)) => AttemptFailed]_vars

\* C9: when the height or the weight entered is not positive, the attempt
\* fails, the step does not become 'result' and no record is stored.
C9_AsStated ==
  [][\A p \in pending, response \in Responses :
       (processImage(p, response) /\ (p.height <= 0 \/ p.weight <= 0)) =>
          AttemptFailed]_vars

\* the response text is JSON of the shape {measurements: {five ratios}, confidence}
MatchesSchema(response) ==
  /\ response.kind = "json"
  /\ response.data.kind = "object"
  /\ response.data.measurements.defined
  /\ \A f \in {"waistRatio", "hipRatio", "shoulderRatio", "chestRatio",
               "torsoHeightRatio"} : response.data.measurements[f].t = "num"
  /\ response.data.confidence.t = "num"

\* C10: for every response that is not JSON or does not match the schema (an
\* empty text included), analyzeBodyImage fails with 'Could not analyze body
\* proportions.' and that message is the error the app stores.
C10_AsStated ==
  [][\A p \in pending, response \in Responses :
       (/\ processImage(p, response)
        /\ response.kind # "reject"
        /\ ~MatchesSchema(response)) =>
          /\ analyzeBodyImage(response).threw
          /\ analyzeBodyImage(response).message = CouldNotAnalyzeMsg
          /\ error' = CouldNotAnalyzeMsg]_vars

\* the attempt p takes the catch branch of processImage on this response:
\* analyzeBodyImage rejects, or the computation after the await throws
AttemptThrows(p, response) ==
  \/ analyzeBodyImage(response).threw
  \/ builtFor[variant, <<p.height, p.weight, p.age>>, response].threw

\* C11: whenever an analysis attempt fails, the step becomes 'camera', the
\* error is a non-empty message, and height, weight and age are what they
\* were before the failure.
C11_FailureReturnsToCamera ==
  [][\A p \in pending, response \in Responses :
       (processImage(p, response) /\ AttemptThrows(p, response)) =>
          /\ step' = "camera"
          /\ error' \notin {"null", ""}
          /\ height' = height
          /\ weight' = weight
          /\ age' = age]_vars

C11_Witness ==
  /\ step = "camera"
  /\ error \notin {"null", ""}
  /\ ~isProcessing

\* C12: in every reachable state the measurement record is absent, or each
\* of its widths, circumferences and indices is a finite number.
C12_AsStated ==
  measurements # null =>
    \A f \in {"waistWidth", "hipWidth", "shoulderWidth", "chestWidth",
              "waistCircumference", "hipCircumference", "bmi", "whr", "whtr"} :
      IsFinite(measurements[f])

\* C13: the objects handed to the exporter by exportToOBJ are the solid body
\* mesh only, never a tape line or the grid helper.
C13_AsStated ==
  \A i \in 1..Len(exported) : exported[i] = "mesh"

\* the number of objects one run of the model effect adds
ChildrenPerModel == IF variant = "simple" THEN 3 ELSE 5

\* C14: while the viewer is mounted the model group holds exactly the objects
\* built from the latest record, one body mesh first, and their number is
\* the same after each regeneration; no viewer, no objects.
C14_GroupRebuilt ==
  IF Shown(step, measurements)
  THEN /\ Len(modelGroup) = ChildrenPerModel
       /\ \A i \in 1..Len(modelGroup) : modelGroup[i].of = measurements
       /\ \A i \in 1..Len(modelGroup) : (modelGroup[i].kind = "mesh") = (i = 1)
  ELSE modelGroup = <<>>

\* the model effect has run again on a mounted viewer
C14_Witness ==
  /\ Shown(step, measurements)
  /\ effectRuns = 2
  /\ Len(modelGroup) = ChildrenPerModel

\* the calls of processImage that have reached their await
AttemptsStarted == uploads - Cardinality({p \in pending : p.stage = "reading"})

C16_AsStated ==
  [][\A p \in pending, response \in Responses :
       (processImage(p, response) /\ step' = "result"
          /\ ~analyzeBodyImage(response).threw
          /\ analyzeBodyImage(response).data.confidence.t = "num") =>
         /\ "confidence" \in DOMAIN measurements'
         /\ measurements'.confidence = analyzeBodyImage(response).data.confidence]_vars

-----------------------------------------------------------------------------
(* Properties of the silhouette generator, checked under SpecFn *)

\* the height fraction (200 * t) of the k-th profile point
PointT(k) == sampleT(variant, k - 1)

\* the k-th profile point lies in the head region
InHead(k) == IF variant = "simple" THEN PointT(k) >= 180 ELSE PointT(k) > 172

\* C17: for every profile sample of the head region, the first and the last
\* included, the value under the square root is not negative and the radius
\* is a number between 0 and headRadius, in both variants.
C17_HeadProfile ==
  fn = "buildModel" =>
    \A k \in 1..Len(res.points) :
      InHead(k) =>
        /\ underRoot(variant, PointT(k)) >= 0
        /\ res.points[k].x.t = "num"
        /\ res.points[k].x.v >= 0
        /\ res.points[k].x.v <= headRadius(variant, arg)

\* the samples at headT = 0 (simple; the extended head region is open at 0)
\* and at headT = 1 have been computed, and the one between them is not 0
C17_Witness ==
  /\ fn = "buildModel"
  /\ arg.height = 170
  /\ res.points[Len(res.points)].x = Num(0)
  /\ variant = "simple" => res.points[19].x = Num(0)
  /\ res.points[Len(res.points) - 1].x.v > 0

\* C18: the heights of the profile points do not decrease along the profile,
\* the first is 0 and the last is heightCm / 100; there are 21 (simple) or
\* 41 (extended) points.
C18_ProfileHeights ==
  fn = "buildModel" =>
    /\ Len(res.points) = IF variant = "simple" THEN 21 ELSE 41
    /\ \A k \in 1..(Len(res.points) - 1) :
         /\ res.points[k].y.t = "num"
         /\ res.points[k].y.v <= res.points[k + 1].y.v
    /\ res.points[1].y = Num(0)
    /\ res.points[Len(res.points)].y = Num(arg.height * LEN)

C18_Witness ==
  /\ fn = "buildModel"
  /\ arg.height = 163
  /\ res.points[1].y = Num(0)
  /\ res.points[2].y.v > 0
  /\ res.points[Len(res.points)].y = Num(1630000)

\* the width a tape marks
TapeWidth(tape) ==
  IF tape.label \in {"Cintura", "Waist"} THEN arg.waistWidth
  ELSE IF tape.label \in {"Cadera", "Hips"} THEN arg.hipWidth
  ELSE arg.chestWidth

Margin == IF variant = "simple" THEN 10000 ELSE 5000

C20_AsStated ==
  fn = "buildModel" =>
    /\ Len(res.tapes) >= 3
    /\ \A k \in 1..Len(res.tapes) :
         \E T \in 0..200 :
           /\ res.tapes[k].yPos = Num((T * scaleFactor(arg)) \div 200)
           /\ profileRadius(variant, arg, T) = Half(TapeWidth(res.tapes[k]))

\* C21: after every regeneration the vertical offset of the model group is
\* exactly minus one half of the scale factor, so that the midpoint between
\* the lowest and the highest profile point lies at height 0.
C21_AsStated ==
  fn = "buildModel" =>
    /\ res.positionY = Num(-(scaleFactor(arg) \div 2))
    /\ 2 * res.positionY.v + res.points[1].y.v + res.points[Len(res.points)].y.v = 0

\* the radius segment s gives at height fraction T, by linear interpolation
\* between its two ends only
OnSegment(s, T) == lerp(s.r0, s.r1, T - s.t0, s.t1 - s.t0)

\* C22: every profile sample below the head region has the radius given by
\* the linear interpolation between the two ends of the segment that holds
\* it; a sample on the boundary of two segments has the radius either gives,
\* so that the profile has no jump at a segment boundary.
C22_AsStated ==
  fn = "buildModel" =>
    \A k \in 1..Len(res.points) :
      ~InHead(k) =>
        \A j \in 1..Len(profileSegments(variant, arg)) :
          LET s == profileSegments(variant, arg)[j]
          IN  (s.t0 <= PointT(k) /\ PointT(k) <= s.t1) =>
                res.points[k].x = OnSegment(s, PointT(k))

\* the record processImage builds for waist ratio r and height h
ViewRecord(r, h) == buildMeasurements(variant, AnalysisOf(r), h, 700, 30).value

\* the profile points whose radius is the ankle radius alone: the samples of
\* the branch t < 0.1 and the start of the leg (simple), the sample on the
\* landmark 'Ankle/Base' (extended)
AtAnkle(k) == IF variant = "simple" THEN PointT(k) <= 20 ELSE PointT(k) = 20

\* the neck radii: the end of the branch 'Shoulders/Neck' (simple), the
\* landmarks 'Neck Base' and 'Mid Neck' (extended)
NeckRadii(m) ==
  IF variant = "simple" THEN <<profileSegments(variant, m)[5].r1>>
  ELSE <<landmarks(m)[8].r, landmarks(m)[9].r>>

\* x is to h as y is to g, up to the truncation of x and y
Proportional(x, h, y, g) ==
  /\ x.t = "num"
  /\ y.t = "num"
  /\ Abs(x.v * g - y.v * h) <= (IF g > h THEN g ELSE h)

\* C23: the ankle, neck and head radii are constants times the scale factor:
\* at every sample where one of them is the radius, and at the neck ends of
\* the interpolation, the radius is proportional to the height and is the
\* same whatever the measured widths are.
C23_AsStated ==
  fn = "buildModel" =>
    \A r2 \in ViewRatios, h2 \in ViewHeights :
      LET other == ViewRecord(r2, h2)
          points2 == profilePoints(variant, other)
      IN  /\ \A k \in 1..Len(res.points) :
               (AtAnkle(k) \/ InHead(k)) =>
                  Proportional(res.points[k].x, arg.height, points2[k].x, h2)
          /\ \A i \in 1..Len(NeckRadii(arg)) :
               Proportional(NeckRadii(arg)[i], arg.height, NeckRadii(other)[i], h2)

-----------------------------------------------------------------------------
(* Properties of the record, checked under SpecFn *)

\* the records processImage has built: the one the app holds, the one
\* buildMeasurements returned, the one handed to the model effect
RecordsBuilt ==
  (IF measurements # null THEN {measurements} ELSE {})
    \cup (IF fn = "buildMeasurements" /\ ~res.threw THEN {res.value} ELSE {})
    \cup (IF fn = "buildModel" THEN {arg} ELSE {})

\* q (in hundredths) is n / d rounded to two decimals: no hundredth is nearer
NearestHundredth(q, n, d) == 2 * Abs(100 * n - q * d) <= Abs(d)

\* C24: in every record, whr is waistCircumference / hipCircumference and
\* whtr is waistCircumference / height, each rounded to two decimals, the
\* circumferences being the whole centimetres of the same record; when the
\* waist circumference is not a number, neither index is.
C24_IndicesFromRounded ==
  \A m \in RecordsBuilt :
    LET wc == m.waistCircumference
        hc == m.hipCircumference
    IN  /\ (IsFinite(wc) /\ IsFinite(hc) /\ hc.v # 0) =>
              /\ IsFinite(m.whr)
              /\ NearestHundredth(m.whr.v, wc.v, hc.v)
        /\ (IsFinite(wc) /\ m.height # 0) =>
              /\ IsFinite(m.whtr)
              /\ NearestHundredth(m.whtr.v, wc.v, m.height)
        /\ ~IsFinite(wc) => (~IsFinite(m.whr) /\ ~IsFinite(m.whtr))

\* a record whose whr and whtr were both rounded up from the quotients of
\* its circumferences
C24_Witness ==
  /\ fn = "buildMeasurements"
  /\ ~res.threw
  /\ IsFinite(res.value.waistCircumference)
  /\ IsFinite(res.value.hipCircumference)
  /\ res.value.hipCircumference.v > 0
  /\ res.value.whr.v * res.value.hipCircumference.v
       > 100 * res.value.waistCircumference.v
  /\ res.value.whtr.v * res.value.height > 100 * res.value.waistCircumference.v
  /\ res.value.waistCircumference.v > 0

-----------------------------------------------------------------------------
(* Properties of the page flow, checked under Spec *)

\* C25: in every reachable state, step = 'result' implies that a measurement
\* record is present, whatever the interleaving of start, submit, upload,
\* completion of an analysis, 'Nuevo Escaneo' and reset.
C25_ResultHasRecord == step = "result" => measurements # null

\* the result view is shown while another analysis is still under way
C25_Witness ==
  /\ step = "result"
  /\ measurements # null
  /\ pending # {}

\* the file of the call p was chosen before the last reset
BeforeReset(p) == p.id <= resetAt

\* C26: after reset, and until a new photo is uploaded, the step is not
\* 'result' and no record is held; the completion of an analysis started
\* before the reset stores no record, sets no error and leaves the step.
C26_AsStated ==
  /\ [](resetAt = uploads => (step # "result" /\ measurements = null))
  /\ [][\A p \in pending, response \in Responses :
          (processImage(p, response) /\ BeforeReset(p)) =>
             /\ measurements' = measurements
             /\ error' = error
             /\ step' = step]_vars

\* C27: when two analyses overlap, the record held in the end is the one of
\* the photo uploaded last, in whatever order the two answers arrive: the
\* answer for an earlier photo, arriving after the record of a later photo
\* was stored while it was in flight, does not replace that record.
C27_AsStated ==
  [][\A p \in pending, response \in Responses :
       (processImage(p, response) /\ p.id \in overtaken /\ measurements # null) =>
          measurements' = measurements]_vars

\* the calls of processImage that await the answer of the oracle
InFlight == {p \in pending : p.stage = "awaiting"}

\* C28: in every reachable state isProcessing is true exactly when at least
\* one request to the oracle is in flight.
C28_AsStated == isProcessing = (InFlight # {})

-----------------------------------------------------------------------------
(* Progress of an analysis, checked under SpecLive *)

\* C29: provided the oracle settles every request, every analysis attempt
\* ends and the app leaves the step 'processing': the step becomes 'result'
\* when the attempt succeeds and 'camera' when it fails, and the step is
\* never 'processing' while no request is in flight.
C29_LeavesProcessing ==
  /\ [](step = "processing" => InFlight # {})
  /\ [][\A p \in pending, response \in Responses :
          processImage(p, response) =>
             step' = IF AttemptThrows(p, response) THEN "camera" ELSE "result"]_vars
  /\ \A i \in 1..MaxUploads :
       (\E p \in InFlight : p.id = i) ~> (\A p \in pending : p.id # i)
  /\ (step = "processing") ~> (step # "processing")

\* an attempt has ended with the result shown and no request left in flight
C29_Witness ==
  /\ step = "result"
  /\ requests >= 1
  /\ InFlight = {}
  /\ ~isProcessing

-----------------------------------------------------------------------------
(* The animation loop of the viewer, checked under Spec *)

\* C30: once the viewer is unmounted (its cleanup has disposed the renderer),
\* no animate callback runs for that renderer: none schedules a further
\* animation frame and none calls render on the disposed renderer.
C30_AsStated == ~lastFrame.disposed

====
